---- MODULE Spec2Model ----
(***************************************************************************)
(* Model of the SoleSense backend (NeuronNexus/vlabBackend): the           *)
(* validation boundary of app.py, the simulation loop of                   *)
(* core/orchestrator.py and the numeric components it drives.              *)
(*                                                                         *)
(* Numbers.  The program computes in IEEE doubles; the model computes in   *)
(* fixed point on integers:                                                *)
(*   - pressures, factors and penalties in units of 1/ONE   (1e-4),        *)
(*   - wear in units of 1/MAX_WEAR                          (1e-9),        *)
(*   - body_weight and foot_size in whole units, sole_stiffness and        *)
(*     material_durability in hundredths.                                  *)
(* Every quotient is truncated, so a sum of GRID_ROWS*GRID_COLS quotients  *)
(* may miss the exact value by less than one unit per cell.                *)
(* A float NaN is the value NaN; arithmetic and comparisons on it follow   *)
(* IEEE / Python rules (every comparison with NaN is false, min and max    *)
(* keep their first argument unless the second compares smaller/greater).  *)
(***************************************************************************)
EXTENDS Integers, Sequences, FiniteSets, TLC

\* ------------------------------------------------------------------------
\* core/constants.py
\* ------------------------------------------------------------------------
GRID_ROWS == 20
GRID_COLS == 10
MAX_CELL_PRESSURE == 1500
MIN_CELL_PRESSURE == 0
MAX_WEAR == 1000000000
TIME_STEP == 1

\* 1.0 in pressure units (MAX_CELL_PRESSURE is 0.15)
ONE == (MAX_CELL_PRESSURE * 100) \div 15

Rows == 0 .. (GRID_ROWS - 1)
Cols == 0 .. (GRID_COLS - 1)
NCells == GRID_ROWS * GRID_COLS

\* load_multiplier and variation in hundredths, wear_rate in tenths
ACTIVITY_PROFILE ==
    [ standing |-> [load_multiplier |-> 100, variation |-> 5,  wear_rate |-> 6],
      walking  |-> [load_multiplier |-> 110, variation |-> 15, wear_rate |-> 10],
      running  |-> [load_multiplier |-> 135, variation |-> 35, wear_rate |-> 18],
      stairs   |-> [load_multiplier |-> 125, variation |-> 25, wear_rate |-> 15],
      jumping  |-> [load_multiplier |-> 160, variation |-> 50, wear_rate |-> 22] ]

\* hundredths
ARCH_BIAS == [ flat |-> 15, normal |-> 0, high |-> -15 ]

\* hundredths
COMFORT_WEIGHTS ==
    [ pressure_peak |-> 20, high_pressure_area |-> 20, zone_bias |-> 15,
      asymmetry |-> 15, temporal_variation |-> 15, pressure_persistence |-> 15 ]

\* ------------------------------------------------------------------------
\* Float values that are not numbers
\* ------------------------------------------------------------------------
NaN == 0 - 999999999

IsNaN(x) == x = NaN

\* IEEE comparisons: false as soon as one side is NaN
Lt(a, b) == (~IsNaN(a)) /\ (~IsNaN(b)) /\ a < b
Gt(a, b) == (~IsNaN(a)) /\ (~IsNaN(b)) /\ a > b
Le(a, b) == (~IsNaN(a)) /\ (~IsNaN(b)) /\ a <= b
Ge(a, b) == (~IsNaN(a)) /\ (~IsNaN(b)) /\ a >= b

\* Python's min(a, b) / max(a, b): a unless b < a (resp. b > a)
PyMin(a, b) == IF Lt(b, a) THEN b ELSE a
PyMax(a, b) == IF Gt(b, a) THEN b ELSE a

Abs(x) == IF IsNaN(x) THEN NaN ELSE IF x < 0 THEN 0 - x ELSE x

\* a * b / c on floats, one truncation at the end
MulDiv(a, b, c) ==
    IF IsNaN(a) \/ IsNaN(b) \/ IsNaN(c) THEN NaN ELSE (a * b) \div c

\* ONE * num / den on floats, num and den in the same unit.  A den of 0
\* stands for a positive float below one unit; quotients beyond 2 are
\* reported as 2 (every use clamps the quotient to [0, 1]).
Quot(num, den) ==
    IF IsNaN(num) \/ IsNaN(den) THEN NaN
    ELSE IF den <= 0 THEN (IF num > 0 THEN 2 * ONE ELSE IF num < 0 THEN 0 - 2 * ONE ELSE 0)
    ELSE IF num >= 2 * den THEN 2 * ONE
    ELSE IF num <= 0 - 2 * den THEN 0 - 2 * ONE
    ELSE LET q == (num * 100) \div den
             r == (num * 100) % den
         IN  q * (ONE \div 100) + (r * (ONE \div 100)) \div den

\* round(x / unit) to the nearest integer, ties to even (Python's round)
RoundHalfEven(x, unit) ==
    LET q == x \div unit
        r == x % unit
    IN  IF 2 * r > unit \/ (2 * r = unit /\ q % 2 = 1) THEN q + 1 ELSE q

\* ------------------------------------------------------------------------
\* Elementary functions (np.exp, np.power, np.sin) in fixed point
\* ------------------------------------------------------------------------
\* ONE * 2^(k/8) and ONE * log2(1 + k/8), k = 0..8
EXP2_KNOTS == <<10000, 10905, 11892, 12968, 14142, 15422, 16818, 18340, 20000>>
LOG2_KNOTS == <<0, 1699, 3219, 4594, 5850, 7004, 8074, 9069, 10000>>
\* ONE * log2(e) and ONE * log2(ONE)
LOG2_E == 14427
LOG2_ONE == 132877

RECURSIVE TwoTo(_)
TwoTo(n) == IF n <= 0 THEN 1 ELSE 2 * TwoTo(n - 1)

\* linear interpolation in a 9-knot table over [0, ONE)
Interp(knots, f) ==
    LET w == ONE \div 8
        k == f \div w
        r == f % w
    IN  knots[k + 1] + ((knots[k + 2] - knots[k + 1]) * r) \div w

\* ONE * 2^(t / ONE), t any integer
Exp2(t) ==
    LET ti == t \div ONE
        tf == t % ONE
        m  == Interp(EXP2_KNOTS, tf)
    IN  IF ti >= 0 THEN m * TwoTo(ti)
        ELSE IF ti < 0 - 30 THEN 0
        ELSE m \div TwoTo(0 - ti)

\* ONE * e^(t / ONE); below e^-14 the result is under one unit
Exp(t) == IF t < 0 - 14 * ONE THEN 0 ELSE Exp2((t * LOG2_E) \div ONE)

RECURSIVE FloorLog2(_)
FloorLog2(m) == IF m < 2 THEN 0 ELSE 1 + FloorLog2(m \div 2)

\* ONE * log2(m / ONE), m > 0
Log2(m) ==
    LET k == FloorLog2(m)
        f == ((m * ONE) \div TwoTo(k)) - ONE
    IN  k * ONE + Interp(LOG2_KNOTS, f) - LOG2_ONE

\* ONE * (x / ONE)^(e100 / 100); a negative base gives NaN
Pow(x, e100) ==
    IF IsNaN(x) \/ x < 0 THEN NaN
    ELSE IF x = 0 THEN 0
    ELSE Exp2((Log2(x) * e100) \div 100)

\* angles in milliradians
PI_MRAD == 3142

\* ONE * sin(a / 1000) for 0 <= a <= PI_MRAD (Bhaskara's rational form)
SinHalf(a) ==
    LET p == a * (PI_MRAD - a)
        d == 5 * PI_MRAD * PI_MRAD - 4 * p
    IN  (16 * p * 50) \div (d \div 200)

\* ONE * sin(a / 1000), a >= 0
Sin(a) ==
    LET r == a % (2 * PI_MRAD)
    IN  IF r <= PI_MRAD THEN SinHalf(r) ELSE 0 - SinHalf(r - PI_MRAD)

\* ------------------------------------------------------------------------
\* Grids: a numpy array of shape (GRID_ROWS, GRID_COLS) is a function on
\* Cells in row-major order, grid[i, j] being grid[At(i, j)]
\* ------------------------------------------------------------------------
Cells == 0 .. (NCells - 1)
At(i, j) == i * GRID_COLS + j
RowOf(c) == c \div GRID_COLS
ColOf(c) == c % GRID_COLS

\* the same function, evaluated once and kept as a table
Eager(f) == IF f = <<>> THEN f ELSE f

Full(v) == Eager([c \in Cells |-> v])

InBlock(c, r0, r1, c0, c1) ==
    RowOf(c) >= r0 /\ RowOf(c) < r1 /\ ColOf(c) >= c0 /\ ColOf(c) < c1

RECURSIVE SumCols(_, _, _, _)
SumCols(g, i, c0, c1) ==
    IF c0 >= c1 THEN 0 ELSE g[At(i, c0)] + SumCols(g, i, c0 + 1, c1)

RECURSIVE SumRows(_, _, _, _, _)
SumRows(g, r0, r1, c0, c1) ==
    IF r0 >= r1 THEN 0
    ELSE SumCols(g, r0, c0, c1) + SumRows(g, r0 + 1, r1, c0, c1)

HasNaN(g, r0, r1, c0, c1) ==
    \E c \in Cells : InBlock(c, r0, r1, c0, c1) /\ IsNaN(g[c])

\* np.sum over rows r0..r1-1, columns c0..c1-1
SumBlock(g, r0, r1, c0, c1) ==
    IF HasNaN(g, r0, r1, c0, c1) THEN NaN
    ELSE SumRows(g, r0, r1, c0, c1)

\* grid.sum()
Sum(g) == SumBlock(g, 0, GRID_ROWS, 0, GRID_COLS)

\* np.mean over a block, in units of 1e-6 (two more digits than a cell)
MeanBlock(g, r0, r1, c0, c1) ==
    LET s == SumBlock(g, r0, r1, c0, c1)
    IN  IF IsNaN(s) THEN NaN
        ELSE (s * 100) \div ((r1 - r0) * (c1 - c0))

Mean(g) == MeanBlock(g, 0, GRID_ROWS, 0, GRID_COLS)

\* np.abs(a - b)
AbsDiff(a, b) ==
    Eager([c \in Cells |->
        IF IsNaN(a[c]) \/ IsNaN(b[c]) THEN NaN ELSE Abs(a[c] - b[c])])

RECURSIVE MaxCols(_, _, _)
MaxCols(g, i, j) ==
    IF j = 0 THEN g[At(i, 0)]
    ELSE LET m == MaxCols(g, i, j - 1)
         IN  IF g[At(i, j)] > m THEN g[At(i, j)] ELSE m

RECURSIVE MaxRows(_, _)
MaxRows(g, i) ==
    LET m == MaxCols(g, i, GRID_COLS - 1)
    IN  IF i = 0 THEN m
        ELSE LET n == MaxRows(g, i - 1) IN IF m > n THEN m ELSE n

\* np.max
Max(g) ==
    IF HasNaN(g, 0, GRID_ROWS, 0, GRID_COLS) THEN NaN
    ELSE MaxRows(g, GRID_ROWS - 1)

\* np.sum(grid > threshold)
CountAbove(g, threshold) ==
    Cardinality({c \in Cells : Gt(g[c], threshold)})

\* ------------------------------------------------------------------------
\* core/normalization.py
\* ------------------------------------------------------------------------
\* result in units of 1/ONE
_normalize_range(value, min_val, max_val) ==
    LET v == PyMax(PyMin(value, max_val), min_val)
    IN  IF IsNaN(v) THEN NaN ELSE ((v - min_val) * ONE) \div (max_val - min_val)

normalize_inputs(inputs) ==
    LET activity ==
            IF inputs.activity_mode \in DOMAIN ACTIVITY_PROFILE
            THEN ACTIVITY_PROFILE[inputs.activity_mode]
            ELSE ACTIVITY_PROFILE["walking"]
    IN  [ load_factor        |-> _normalize_range(inputs.body_weight, 40, 120),
          contact_capacity   |-> _normalize_range(inputs.foot_size, 36, 48),
          arch_bias          |-> IF inputs.arch_type \in DOMAIN ARCH_BIAS
                                 THEN ARCH_BIAS[inputs.arch_type] ELSE 0,
          activity_load      |-> activity.load_multiplier,
          activity_variation |-> activity.variation,
          activity_wear_rate |-> activity.wear_rate,
          stiffness_factor   |-> PyMax(PyMin(inputs.sole_stiffness, 100), 0),
          durability_factor  |-> PyMax(PyMin(inputs.material_durability, 100), 0) ]

\* ------------------------------------------------------------------------
\* core/pressure_field.py
\* ------------------------------------------------------------------------
\* np.linspace(0, 1, GRID_ROWS)[i], units of 1/ONE
LinRow(i) == (i * ONE) \div (GRID_ROWS - 1)
\* np.linspace(-1, 1, GRID_COLS)[j], units of 1/ONE
LinCol(j) == ((2 * j * ONE) \div (GRID_COLS - 1)) - ONE

_base_longitudinal_profile ==
    [i \in Rows |-> (14 * Exp(0 - ((35 * LinRow(i)) \div 10))) \div 10 + (35 * ONE) \div 100]

_apply_arch_bias(profile, arch_bias) ==
    LET mid_start == (35 * GRID_ROWS) \div 100
        mid_end   == (65 * GRID_ROWS) \div 100
    IN  Eager([i \in Rows |->
            IF i >= mid_start /\ i < mid_end
            THEN (profile[i] * (100 - arch_bias)) \div 100
            ELSE profile[i]])

\* x * x in units of 1/ONE
Sq(x) == (x * x) \div ONE

_lateral_weight(row_idx) ==
    Eager([j \in Cols |->
        LET x == LinCol(j) IN
        IF row_idx * 100 < 35 * GRID_ROWS
        THEN Exp(0 - ((Sq(x) * 10000) \div 2450))
        ELSE IF row_idx * 100 < 60 * GRID_ROWS
        THEN (Exp(0 - ((Sq(x) * 10000) \div 648)) * 6) \div 10
        ELSE Exp(0 - ((Sq(x + (35 * ONE) \div 100) * 100) \div 8))
           + Exp(0 - ((Sq(x - (35 * ONE) \div 100) * 100) \div 8))])

_expand_to_grid(longitudinal_profile) ==
    LET lateral == Eager([i \in Rows |-> _lateral_weight(i)])
    IN  Eager([c \in Cells |->
            (longitudinal_profile[RowOf(c)] * lateral[RowOf(c)][ColOf(c)]) \div ONE])

\* exponent in hundredths: max(0.6, 1.4 - capacity)
_apply_contact_capacity(grid, capacity) ==
    LET exponent == PyMax(60, IF IsNaN(capacity) THEN NaN
                              ELSE 140 - (capacity * 100) \div ONE)
    IN  Eager([c \in Cells |-> Pow(grid[c], exponent)])

\* one Jacobi sweep: every cell from the grid of the previous sweep
SmoothOnce(grid) ==
    Eager([c \in Cells |->
        LET i == RowOf(c)
            j == ColOf(c)
            up    == IF i > 0 THEN <<grid[At(i - 1, j)]>> ELSE <<>>
            down  == IF i < GRID_ROWS - 1 THEN <<grid[At(i + 1, j)]>> ELSE <<>>
            left  == IF j > 0 THEN <<grid[At(i, j - 1)]>> ELSE <<>>
            right == IF j < GRID_COLS - 1 THEN <<grid[At(i, j + 1)]>> ELSE <<>>
            neighbors == <<grid[c]>> \o up \o down \o left \o right
            total == neighbors[1]
                     + (IF Len(neighbors) > 1 THEN neighbors[2] ELSE 0)
                     + (IF Len(neighbors) > 2 THEN neighbors[3] ELSE 0)
                     + (IF Len(neighbors) > 3 THEN neighbors[4] ELSE 0)
                     + (IF Len(neighbors) > 4 THEN neighbors[5] ELSE 0)
        IN  total \div Len(neighbors)])

RECURSIVE SmoothN(_, _)
SmoothN(grid, n) == IF n <= 0 THEN grid ELSE SmoothN(SmoothOnce(grid), n - 1)

\* variant: the number of iterations is rounded to the nearest integer
SmoothSteps_Rounded(stiffness_factor, iterations) ==
    ((100 - stiffness_factor) * iterations + 50) \div 100

\* int((1.0 - stiffness_factor) * iterations)
SmoothSteps(stiffness_factor, iterations) ==
    ((100 - stiffness_factor) * iterations) \div 100

_smooth_grid_bounded(grid, stiffness_factor) ==
    SmoothN(grid, SmoothSteps(stiffness_factor, 4))

\* int() of a NaN raises ValueError
generate_raises(params) == IsNaN(params.stiffness_factor)

generate_pressure_field(params) ==
    _smooth_grid_bounded(
        _apply_contact_capacity(
            _expand_to_grid(
                _apply_arch_bias(_base_longitudinal_profile, params.arch_bias)),
            params.contact_capacity),
        params.stiffness_factor)

\* ------------------------------------------------------------------------
\* core/temporal_evolution.py
\* ------------------------------------------------------------------------
\* variation * sin(linspace(0, pi, GRID_ROWS) + step * 0.1), units of 1/ONE
_longitudinal_load_shift(step, variation) ==
    Eager([i \in Rows |->
        (variation * Sin((i * PI_MRAD) \div (GRID_ROWS - 1) + step * 100)) \div 100])

RELAXATION_RATE == 15

evolve_pressure_field(previous_grid, base_grid, step, activity_variation) ==
    LET shift_profile == _longitudinal_load_shift(step, activity_variation)
        alpha == PyMax(PyMin(RELAXATION_RATE, 100), 0)
    IN  Eager([c \in Cells |->
            LET target == (base_grid[c] * (ONE + shift_profile[RowOf(c)])) \div ONE
            IN  IF IsNaN(previous_grid[c]) THEN NaN
                ELSE ((100 - alpha) * previous_grid[c] + alpha * target) \div 100])

\* ------------------------------------------------------------------------
\* core/constraints.py
\* ------------------------------------------------------------------------
\* EPSILON = 1e-8 lies below one unit: a sum of whole units is below it
\* exactly when it is below 1
EPSILON == 1

_max_representable_force == MAX_CELL_PRESSURE * GRID_ROWS * GRID_COLS

_safe_uniform(target_force) ==
    LET max_force == _max_representable_force
        effective_force == PyMin(target_force, max_force)
        value == IF IsNaN(effective_force) THEN NaN
                 ELSE effective_force \div (GRID_ROWS * GRID_COLS)
    IN  Full(PyMin(value, MAX_CELL_PRESSURE))

\* np.nan_to_num(grid, nan=0.0, posinf=0.0, neginf=0.0)
enforce_finite(grid) ==
    Eager([c \in Cells |-> IF IsNaN(grid[c]) THEN 0 ELSE grid[c]])

\* np.clip(grid, MIN_CELL_PRESSURE, MAX_CELL_PRESSURE); a NaN stays a NaN
enforce_bounds(grid) ==
    Eager([c \in Cells |->
        IF IsNaN(grid[c]) THEN NaN
        ELSE IF grid[c] < MIN_CELL_PRESSURE THEN MIN_CELL_PRESSURE
        ELSE IF grid[c] > MAX_CELL_PRESSURE THEN MAX_CELL_PRESSURE
        ELSE grid[c]])

\* grid * (num / den)
Scale(grid, num, den) ==
    Eager([c \in Cells |-> MulDiv(grid[c], num, den)])

\* variant: the grid is returned without being scaled to the target
enforce_force_unscaled(grid, target_force) == grid

enforce_force_with_capacity(grid, target_force) ==
    LET max_force == _max_representable_force
        current_force == Sum(grid)
        scaled == Scale(grid, target_force, current_force)
        clipped == enforce_bounds(scaled)
        clipped_force == Sum(clipped)
    IN  IF Gt(target_force, max_force) THEN _safe_uniform(target_force)
        ELSE IF Lt(current_force, EPSILON) THEN _safe_uniform(target_force)
        ELSE IF Lt(clipped_force, EPSILON) THEN _safe_uniform(target_force)
        ELSE Scale(clipped, target_force, clipped_force)

apply_constraints(grid, target_total_force) ==
    enforce_bounds(
        enforce_force_with_capacity(
            enforce_bounds(enforce_finite(grid)),
            target_total_force))

\* ------------------------------------------------------------------------
\* core/comfort_engine.py
\* ------------------------------------------------------------------------
PenaltyNames ==
    <<"pressure_peak", "high_pressure_area", "zone_bias",
      "asymmetry", "temporal_variation", "pressure_persistence">>

None == <<>>

\* variant: no upper clamp
_clip01_NoUpper(x) == PyMax(0, x)

_clip01(x) == PyMax(0, PyMin(x, ONE))

\* round(x, 3): thousandths
Round3(x) == RoundHalfEven(x, ONE \div 1000)

\* 1e-8 as a mean: below one unit
MEAN_FLOOR == 0

compute_comfort(pressure_grid, previous_grid) ==
    LET rows == GRID_ROWS
        cols == GRID_COLS
        mean_p == PyMax(Mean(pressure_grid), MEAN_FLOOR)
        peak_penalty == _clip01(Quot(Max(pressure_grid), MAX_CELL_PRESSURE))
        area_penalty ==
            _clip01((CountAbove(pressure_grid, (7 * MAX_CELL_PRESSURE) \div 10) * ONE)
                    \div (rows * cols))
        heel == MeanBlock(pressure_grid, (7 * rows) \div 10, rows, 0, cols)
        forefoot == MeanBlock(pressure_grid, 0, (3 * rows) \div 10, 0, cols)
        zone_penalty ==
            _clip01(Quot(IF IsNaN(heel) \/ IsNaN(forefoot) THEN NaN
                         ELSE Abs(heel - forefoot), mean_p))
        left == MeanBlock(pressure_grid, 0, rows, 0, cols \div 2)
        right == MeanBlock(pressure_grid, 0, rows, cols \div 2, cols)
        asymmetry_penalty ==
            _clip01(Quot(IF IsNaN(left) \/ IsNaN(right) THEN NaN
                         ELSE Abs(left - right), mean_p))
        temporal_penalty ==
            IF previous_grid = None THEN 0
            ELSE _clip01(Quot(Mean(AbsDiff(pressure_grid, previous_grid)), mean_p))
        persistence_penalty ==
            IF Lt(temporal_penalty, (2 * ONE) \div 10)
            THEN _clip01(Quot(mean_p, MAX_CELL_PRESSURE * 100))
            ELSE 0
        total_penalty ==
            ( COMFORT_WEIGHTS.pressure_peak * peak_penalty
            + COMFORT_WEIGHTS.high_pressure_area * area_penalty
            + COMFORT_WEIGHTS.zone_bias * zone_penalty
            + COMFORT_WEIGHTS.asymmetry * asymmetry_penalty
            + COMFORT_WEIGHTS.temporal_variation * temporal_penalty
            + COMFORT_WEIGHTS.pressure_persistence * persistence_penalty ) \div 100
    IN  [ comfort_index |-> RoundHalfEven(100 * (ONE - _clip01(total_penalty)), ONE),
          penalties |->
            [ pressure_peak        |-> Round3(peak_penalty),
              high_pressure_area   |-> Round3(area_penalty),
              zone_bias            |-> Round3(zone_penalty),
              asymmetry            |-> Round3(asymmetry_penalty),
              temporal_variation   |-> Round3(temporal_penalty),
              pressure_persistence |-> Round3(persistence_penalty) ] ]

\* ------------------------------------------------------------------------
\* core/wear_model.py
\* ------------------------------------------------------------------------
\* WEAR_RATE = 1e-5: wear units per unit of a pressure ratio
WEAR_RATE == (MAX_WEAR \div ONE) \div 100000
\* exponent in hundredths
WEAR_NONLINEARITY == 130

\* variant: no wear is added
accumulate_wear_Nothing(previous_wear, pressure_grid, previous_pressure, durability_factor, activity_wear_rate, time_step) ==
    previous_wear

accumulate_wear(previous_wear, pressure_grid, previous_pressure, durability_factor, activity_wear_rate, time_step) ==
    LET rows == GRID_ROWS
        cols == GRID_COLS
        dt == PyMax(time_step, 0)
        durability == PyMax(PyMin(durability_factor, 100), 0)
        material_response ==
            IF IsNaN(durability) THEN NaN ELSE (100 - durability) * (100 - durability)
        high_pressure_count == CountAbove(pressure_grid, (6 * MAX_CELL_PRESSURE) \div 10)
        delta == Mean(AbsDiff(pressure_grid, previous_pressure))
        persistence == IF IsNaN(delta) THEN NaN
                       ELSE ONE - PyMin(Quot(delta, MAX_CELL_PRESSURE * 100), ONE)
        persistence_modifier ==
            IF previous_pressure = None THEN ONE
            ELSE IF IsNaN(persistence) THEN NaN
            ELSE ONE + persistence \div 2
        heel_start == (7 * rows) \div 10
        forefoot_end == (3 * rows) \div 10
        zone_modifier(c) ==
            IF RowOf(c) < forefoot_end \/ RowOf(c) >= heel_start THEN 11 ELSE 9
        wear_increment(c) ==
            LET ratio == MulDiv(pressure_grid[c], ONE, MAX_CELL_PRESSURE)
                peak == Pow(ratio, WEAR_NONLINEARITY)
                spread == (peak * WEAR_RATE * dt * activity_wear_rate * zone_modifier(c)
                           * (rows * cols + high_pressure_count)) \div (rows * cols * 100)
                kept == (spread * persistence_modifier) \div ONE
            IN  IF IsNaN(peak) \/ IsNaN(material_response) \/ IsNaN(persistence_modifier)
                THEN NaN
                ELSE (kept * material_response) \div ONE
    IN  Eager([c \in Cells |->
            LET inc == wear_increment(c)
                new_wear == IF IsNaN(inc) \/ IsNaN(previous_wear[c]) THEN NaN
                            ELSE previous_wear[c] + inc
            IN  IF IsNaN(new_wear) THEN NaN
                ELSE IF new_wear < 0 THEN 0
                ELSE IF new_wear > MAX_WEAR THEN MAX_WEAR
                ELSE new_wear])

\* ------------------------------------------------------------------------
\* utils/validators.py
\* ------------------------------------------------------------------------
\* a key that is absent from the payload, and a value that is no int / float
MISSING == 0 - 999999998
BADTYPE == 0 - 999999997
MISSING_STR == "<missing>"
NOT_A_STRING == "<not-a-string>"

ALLOWED_ARCH_TYPES == {"flat", "normal", "high"}
ALLOWED_ACTIVITY_MODES == {"standing", "walking", "running", "stairs", "jumping"}

NoError == [field |-> "", problem |-> "none"]
Error(name, problem) == [field |-> name, problem |-> problem]

\* the ValueError raised by validate_numeric, NoError when it returns
validate_numeric(name, value, min_val, max_val) ==
    IF value = BADTYPE THEN Error(name, "must be a number")
    ELSE IF Lt(value, min_val) THEN Error(name, "must be >= min")
    ELSE IF Gt(value, max_val) THEN Error(name, "must be <= max")
    ELSE NoError

\* str.lower() on the strings of the model
Lower(value) ==
    CASE value = "FLAT" -> "flat"
      [] value = "Jumping" -> "jumping"
      [] OTHER -> value

\* the ValueError raised by validate_enum, NoError when it returns
validate_enum(name, value, allowed) ==
    IF value = NOT_A_STRING THEN Error(name, "must be a string")
    ELSE IF Lower(value) \notin allowed THEN Error(name, "must be one of allowed")
    ELSE NoError

RequiredFields ==
    <<"body_weight", "foot_size", "arch_type", "activity_mode",
      "sole_stiffness", "material_durability">>

IsMissing(payload, key) ==
    IF key \in {"arch_type", "activity_mode"}
    THEN payload[key] = MISSING_STR
    ELSE payload[key] = MISSING

\* first element of a sequence of errors that is an error
RECURSIVE FirstError(_)
FirstError(errors) ==
    IF errors = <<>> THEN NoError
    ELSE IF Head(errors) # NoError THEN Head(errors)
    ELSE FirstError(Tail(errors))

\* the error validate_simulation_inputs raises on payload, NoError if none
validation_error(payload) ==
    LET missing == {k \in 1 .. Len(RequiredFields) : IsMissing(payload, RequiredFields[k])}
        first == CHOOSE k \in missing : \A m \in missing : k <= m
    IN  IF missing # {} THEN Error(RequiredFields[first], "missing required field")
        ELSE FirstError(<<
            validate_numeric("body_weight", payload.body_weight, 20, 300),
            validate_numeric("foot_size", payload.foot_size, 30, 50),
            validate_numeric("sole_stiffness", payload.sole_stiffness, 0, 100),
            validate_numeric("material_durability", payload.material_durability, 0, 100),
            validate_enum("arch_type", payload.arch_type, ALLOWED_ARCH_TYPES),
            validate_enum("activity_mode", payload.activity_mode, ALLOWED_ACTIVITY_MODES) >>)

\* the sanitized copy validate_simulation_inputs returns
validate_simulation_inputs(payload) ==
    [ body_weight         |-> payload.body_weight,
      foot_size           |-> payload.foot_size,
      arch_type           |-> Lower(payload.arch_type),
      activity_mode       |-> Lower(payload.activity_mode),
      sole_stiffness      |-> payload.sole_stiffness,
      material_durability |-> payload.material_durability ]

\* ------------------------------------------------------------------------
\* core/orchestrator.py: post-simulation analysis
\* ------------------------------------------------------------------------
Last(seq) == seq[Len(seq)]

\* sum of seq[lo .. hi], by halves
RECURSIVE SumRange(_, _, _)
SumRange(seq, lo, hi) ==
    IF lo > hi THEN 0
    ELSE IF lo = hi THEN seq[lo]
    ELSE LET mid == (lo + hi) \div 2
             a == SumRange(seq, lo, mid)
             b == SumRange(seq, mid + 1, hi)
         IN  IF IsNaN(a) \/ IsNaN(b) THEN NaN ELSE a + b

SumSeq(seq) == SumRange(seq, 1, Len(seq))

\* np.mean of a wear grid, in wear units
WearMean(w) ==
    IF HasNaN(w, 0, GRID_ROWS, 0, GRID_COLS) THEN NaN
    ELSE LET quot == Eager([c \in Cells |-> w[c] \div NCells])
             rem == Eager([c \in Cells |-> w[c] % NCells])
         IN  SumRows(quot, 0, GRID_ROWS, 0, GRID_COLS)
             + SumRows(rem, 0, GRID_ROWS, 0, GRID_COLS) \div NCells

\* np.max of a wear grid
WearMax(w) == Max(w)

Sub(a, b) == IF IsNaN(a) \/ IsNaN(b) THEN NaN ELSE a - b

\* variant: the totals are sorted in ascending order
SortsBefore_Ascending(totals, a, b) ==
    totals[PenaltyNames[a]] < totals[PenaltyNames[b]]
    \/ (totals[PenaltyNames[a]] = totals[PenaltyNames[b]] /\ a < b)

\* sorted(penalty_totals.items(), key=value, reverse=True): a stable sort,
\* equal totals keep the order of PenaltyNames
SortsBefore(totals, a, b) ==
    totals[PenaltyNames[a]] > totals[PenaltyNames[b]]
    \/ (totals[PenaltyNames[a]] = totals[PenaltyNames[b]] /\ a < b)

SortedNames(totals) ==
    [r \in 1 .. Len(PenaltyNames) |->
        PenaltyNames[CHOOSE a \in 1 .. Len(PenaltyNames) :
            Cardinality({b \in 1 .. Len(PenaltyNames) : SortsBefore(totals, b, a)}) = r - 1]]

_analyze_trends(comfort_history, wear_history, pressure_history) ==
    LET comfort_values == [k \in 1 .. Len(comfort_history) |-> comfort_history[k].comfort_index]
        comfort_slope == Last(comfort_values) - comfort_values[1]
        wear_means == [k \in 1 .. Len(wear_history) |-> WearMean(wear_history[k])]
        mid == Len(wear_means) \div 2
        early_wear_rate == Sub(wear_means[mid + 1], wear_means[1])
        late_wear_rate == Sub(Last(wear_means), wear_means[mid + 1])
        wear_accelerating ==
            (~IsNaN(early_wear_rate)) /\ (~IsNaN(late_wear_rate))
            /\ 10 * late_wear_rate > 12 * early_wear_rate
        deltas == [k \in 1 .. (Len(pressure_history) - 1) |->
                      Mean(AbsDiff(pressure_history[k + 1], pressure_history[k]))]
        recent == IF Len(deltas) > 5
                  THEN SubSeq(deltas, Len(deltas) - 4, Len(deltas)) ELSE deltas
        pressure_delta ==
            IF Len(pressure_history) < 2 THEN 0
            ELSE IF IsNaN(SumSeq(recent)) THEN NaN
            ELSE SumSeq(recent) \div Len(recent)
        penalty_totals ==
            [n \in {PenaltyNames[k] : k \in 1 .. Len(PenaltyNames)} |->
                SumSeq([k \in 1 .. Len(comfort_history) |-> comfort_history[k].penalties[n]])]
    IN  [ comfort_slope     |-> comfort_slope,
          wear_accelerating |-> wear_accelerating,
          pressure_delta    |-> pressure_delta,
          dominant_factors  |-> SubSeq(SortedNames(penalty_totals), 1, 2) ]

InSeq(x, seq) == \E k \in 1 .. Len(seq) : seq[k] = x

\* 1e-3 as a mean
PRESSURE_DELTA_STABLE == (ONE * 100) \div 1000

\* variant: the pressure rule is tested before the comfort rule
_classify_scenario_PressureFirst(analysis) ==
    LET stability ==
            IF Lt(analysis.pressure_delta, PRESSURE_DELTA_STABLE) THEN "stable"
            ELSE IF analysis.comfort_slope < 0 - 20 THEN "degrading"
            ELSE "saturated"
        scenario_type ==
            IF InSeq("asymmetry", analysis.dominant_factors) THEN "imbalance-driven"
            ELSE IF InSeq("high_pressure_area", analysis.dominant_factors) THEN "fatigue-driven"
            ELSE IF InSeq("pressure_peak", analysis.dominant_factors) THEN "overload-driven"
            ELSE "stable"
    IN  [ scenario_type    |-> scenario_type,
          stability        |-> stability,
          dominant_factors |-> analysis.dominant_factors,
          explanation      |-> <<scenario_type, stability>> ]

_classify_scenario(analysis) ==
    LET stability ==
            IF analysis.comfort_slope < 0 - 20 THEN "degrading"
            ELSE IF Lt(analysis.pressure_delta, PRESSURE_DELTA_STABLE) THEN "stable"
            ELSE "saturated"
        scenario_type ==
            IF InSeq("asymmetry", analysis.dominant_factors) THEN "imbalance-driven"
            ELSE IF InSeq("high_pressure_area", analysis.dominant_factors) THEN "fatigue-driven"
            ELSE IF InSeq("pressure_peak", analysis.dominant_factors) THEN "overload-driven"
            ELSE "stable"
    IN  [ scenario_type    |-> scenario_type,
          stability        |-> stability,
          dominant_factors |-> analysis.dominant_factors,
          explanation      |-> <<scenario_type, stability>> ]

\* 1e-6 in wear units
WEAR_FLOOR == MAX_WEAR \div 1000000

_align_comfort_and_wear(comfort_history, wear_history) ==
    LET comfort_values == [k \in 1 .. Len(comfort_history) |-> comfort_history[k].comfort_index]
        wear_means == [k \in 1 .. Len(wear_history) |-> WearMean(wear_history[k])]
        comfort_drop == comfort_values[1] - Last(comfort_values)
        wear_growth == Sub(Last(wear_means), wear_means[1])
        comfort_drop_norm == Quot(comfort_drop, PyMax(comfort_values[1], 1))
        wear_growth_norm == Quot(wear_growth, PyMax(Last(wear_means), WEAR_FLOOR))
        regime ==
            IF Gt(comfort_drop_norm, (3 * ONE) \div 10) /\ Lt(wear_growth_norm, (2 * ONE) \div 10)
            THEN "transient_discomfort"
            ELSE IF Gt(comfort_drop_norm, (2 * ONE) \div 10) /\ Gt(wear_growth_norm, (3 * ONE) \div 10)
            THEN "fatigue_driven_degradation"
            ELSE IF Lt(comfort_drop_norm, ONE \div 10) /\ Gt(wear_growth_norm, (3 * ONE) \div 10)
            THEN "hidden_wear_risk"
            ELSE "balanced"
    IN  [ alignment_regime        |-> regime,
          comfort_drop_normalized |-> Round3(comfort_drop_norm),
          wear_growth_normalized  |-> IF IsNaN(wear_growth_norm) THEN NaN
                                      ELSE Round3(wear_growth_norm),
          interpretation          |-> regime ]

\* ------------------------------------------------------------------------
\* core/scenario_compare.py
\* ------------------------------------------------------------------------
SeqToSet(seq) == {seq[k] : k \in 1 .. Len(seq)}

\* round(x, 4) of a wear value: units of 1e-4
Round4(x) == IF IsNaN(x) THEN NaN ELSE RoundHalfEven(x, MAX_WEAR \div 10000)

\* variant: every neutral comparison is equivalent, whatever the deltas
compare_scenarios_NoTolerance(baseline, variant) ==
    LET base_comfort_end == Last(baseline.comfort_history).comfort_index
        var_comfort_end == Last(variant.comfort_history).comfort_index
        comfort_delta == var_comfort_end - base_comfort_end
        base_wear == baseline.final_wear
        var_wear == variant.final_wear
        mean_wear_delta == Sub(WearMean(var_wear), WearMean(base_wear))
        max_wear_delta == Sub(WearMax(var_wear), WearMax(base_wear))
        base_alignment == baseline.alignment_summary.alignment_regime
        var_alignment == variant.alignment_summary.alignment_regime
        base_factors == SeqToSet(baseline.scenario_summary.dominant_factors)
        var_factors == SeqToSet(variant.scenario_summary.dominant_factors)
        factor_shift == [ reduced    |-> base_factors \ var_factors,
                          introduced |-> var_factors \ base_factors ]
        mechanism_notes ==
            (IF Lt(mean_wear_delta, 0) THEN <<"wear reduction">> ELSE <<>>)
            \o (IF comfort_delta > 0 THEN <<"comfort improvement">> ELSE <<>>)
            \o (IF base_alignment # var_alignment THEN <<"alignment regime changed">> ELSE <<>>)
        tradeoff_type ==
            IF comfort_delta >= 0 /\ Le(mean_wear_delta, 0) THEN "no_tradeoff"
            ELSE IF comfort_delta < 0 /\ Lt(mean_wear_delta, 0) THEN "durability_tradeoff"
            ELSE IF comfort_delta > 0 /\ Gt(mean_wear_delta, 0) THEN "comfort_tradeoff"
            ELSE "neutral"
        verdict ==
            IF tradeoff_type = "no_tradeoff" THEN "strictly_better"
            ELSE IF tradeoff_type \in {"durability_tradeoff", "comfort_tradeoff"} THEN "tradeoff"
            ELSE "equivalent"
    IN  [ outcome_deltas |->
            [ comfort_delta    |-> comfort_delta,
              mean_wear_delta  |-> Round4(mean_wear_delta),
              max_wear_delta   |-> Round4(max_wear_delta),
              alignment_change |-> [from |-> base_alignment, to |-> var_alignment] ],
          mechanism_attribution |->
            [ dominant_factor_shift |-> factor_shift, notes |-> mechanism_notes ],
          tradeoff_analysis |-> [type |-> tradeoff_type, summary |-> tradeoff_type],
          verdict |->
            [ classification |-> verdict,
              rationale |-> IF verdict = "tradeoff" THEN tradeoff_type ELSE verdict ] ]

compare_scenarios(baseline, variant) ==
    LET base_comfort_end == Last(baseline.comfort_history).comfort_index
        var_comfort_end == Last(variant.comfort_history).comfort_index
        comfort_delta == var_comfort_end - base_comfort_end
        base_wear == baseline.final_wear
        var_wear == variant.final_wear
        mean_wear_delta == Sub(WearMean(var_wear), WearMean(base_wear))
        max_wear_delta == Sub(WearMax(var_wear), WearMax(base_wear))
        base_alignment == baseline.alignment_summary.alignment_regime
        var_alignment == variant.alignment_summary.alignment_regime
        base_factors == SeqToSet(baseline.scenario_summary.dominant_factors)
        var_factors == SeqToSet(variant.scenario_summary.dominant_factors)
        factor_shift == [ reduced    |-> base_factors \ var_factors,
                          introduced |-> var_factors \ base_factors ]
        mechanism_notes ==
            (IF Lt(mean_wear_delta, 0) THEN <<"wear reduction">> ELSE <<>>)
            \o (IF comfort_delta > 0 THEN <<"comfort improvement">> ELSE <<>>)
            \o (IF base_alignment # var_alignment THEN <<"alignment regime changed">> ELSE <<>>)
        tradeoff_type ==
            IF comfort_delta >= 0 /\ Le(mean_wear_delta, 0) THEN "no_tradeoff"
            ELSE IF comfort_delta < 0 /\ Lt(mean_wear_delta, 0) THEN "durability_tradeoff"
            ELSE IF comfort_delta > 0 /\ Gt(mean_wear_delta, 0) THEN "comfort_tradeoff"
            ELSE "neutral"
        verdict ==
            IF tradeoff_type = "no_tradeoff" THEN "strictly_better"
            ELSE IF tradeoff_type \in {"durability_tradeoff", "comfort_tradeoff"} THEN "tradeoff"
            ELSE IF Abs(comfort_delta) < 5 /\ Lt(Abs(mean_wear_delta), MAX_WEAR \div 100)
            THEN "equivalent"
            ELSE "worse"
    IN  [ outcome_deltas |->
            [ comfort_delta    |-> comfort_delta,
              mean_wear_delta  |-> Round4(mean_wear_delta),
              max_wear_delta   |-> Round4(max_wear_delta),
              alignment_change |-> [from |-> base_alignment, to |-> var_alignment] ],
          mechanism_attribution |->
            [ dominant_factor_shift |-> factor_shift, notes |-> mechanism_notes ],
          tradeoff_analysis |-> [type |-> tradeoff_type, summary |-> tradeoff_type],
          verdict |->
            [ classification |-> verdict,
              rationale |-> IF verdict = "tradeoff" THEN tradeoff_type ELSE verdict ] ]

\* ------------------------------------------------------------------------
\* State: one request handled by app.py, the locals of the run_simulation
\* call in progress, and the results of the calls that returned
\* ------------------------------------------------------------------------
VARIABLES
    payload,            \* the request: endpoint, steps, the input records
    pc,                 \* position of the handler
    run_idx,            \* 1 for the first run_simulation call, 2 for the second
    inputs,             \* the sanitized records
    invocations,        \* number of run_simulation calls made so far
    raised_in,          \* where the exception that ended the request was raised
    results,            \* the results returned by run_simulation
    response,           \* the response sent
    returned,           \* the value returned by a direct call of a core function
    tables,             \* the module-level dictionaries of core/constants.py
    threads,            \* the locals of run_simulation calls running side by side
    params, base_grid, pressure_grid, previous_pressure, wear_grid, step,
    target_force, comfort_history, pressure_history, wear_history

reqVars == <<payload>>
ctlVars == <<pc, run_idx, inputs, invocations, raised_in, results, response, returned>>
runVars == <<params, base_grid, pressure_grid, previous_pressure, wear_grid, step,
             target_force, comfort_history, pressure_history, wear_history>>
procVars == <<tables, threads>>
vars == <<reqVars, ctlVars, runVars, procVars>>

NoResponse == [status |-> 0]
ErrorResponse(error, message) == [status |-> 400, error |-> error, message |-> message]
OkResponse(body) == [status |-> 200, body |-> body]

\* ------------------------------------------------------------------------
\* app.py: simulate() and compare() up to the call of the core
\* ------------------------------------------------------------------------
\* the exception raised before the core is called, NoError if none
HandlerError(p) ==
    IF p.endpoint = "compare" /\ Len(p.records) < 2
    THEN Error("", "must contain both baseline and variant")
    ELSE FirstError([k \in 1 .. Len(p.records) |-> validation_error(p.records[k])])

FailedName(p) ==
    IF p.endpoint = "simulate" THEN "Simulation failed" ELSE "Scenario comparison failed"

ValidateFail ==
    /\ pc = "received"
    /\ HandlerError(payload) # NoError
    /\ response' = ErrorResponse(FailedName(payload), HandlerError(payload))
    /\ raised_in' = "validation"
    /\ pc' = "done"
    /\ UNCHANGED <<procVars, reqVars, run_idx, inputs, invocations, results, returned, runVars>>

ValidateOk ==
    /\ pc = "received"
    /\ HandlerError(payload) = NoError
    /\ inputs' = [k \in 1 .. Len(payload.records) |->
                     validate_simulation_inputs(payload.records[k])]
    /\ run_idx' = 1
    /\ pc' = "run_start"
    /\ UNCHANGED <<procVars, reqVars, invocations, raised_in, results, response, returned, runVars>>

\* ------------------------------------------------------------------------
\* core/orchestrator.py: run_simulation
\* ------------------------------------------------------------------------
\* lines 175-188; generate_pressure_field raises on a NaN stiffness
RunStartRaise ==
    /\ pc = "run_start"
    /\ generate_raises(normalize_inputs(inputs[run_idx]))
    /\ invocations' = invocations + 1
    /\ params' = normalize_inputs(inputs[run_idx])
    /\ response' = ErrorResponse(FailedName(payload),
                                 Error("", "cannot convert float NaN to integer"))
    /\ raised_in' = "run_simulation"
    /\ pc' = "done"
    /\ UNCHANGED <<procVars, reqVars, run_idx, inputs, results, returned, base_grid, pressure_grid,
                   previous_pressure, wear_grid, step, target_force,
                   comfort_history, pressure_history, wear_history>>

\* variant: the wear array outlives the invocation that created it
RunStartOk_KeepsWear ==
    /\ pc = "run_start"
    /\ ~generate_raises(normalize_inputs(inputs[run_idx]))
    /\ invocations' = invocations + 1
    /\ params' = normalize_inputs(inputs[run_idx])
    /\ base_grid' = generate_pressure_field(params')
    /\ pressure_grid' = base_grid'
    /\ previous_pressure' = None
    /\ wear_grid' = IF wear_grid = None THEN Full(0) ELSE wear_grid
    /\ comfort_history' = <<>>
    /\ pressure_history' = <<>>
    /\ wear_history' = <<>>
    /\ target_force' = MulDiv(params'.load_factor, params'.activity_load, 100)
    /\ step' = 0
    /\ pc' = "loop"
    /\ UNCHANGED <<procVars, reqVars, run_idx, inputs, raised_in, results, response, returned>>

RunStartOk ==
    /\ pc = "run_start"
    /\ ~generate_raises(normalize_inputs(inputs[run_idx]))
    /\ invocations' = invocations + 1
    /\ params' = normalize_inputs(inputs[run_idx])
    /\ base_grid' = generate_pressure_field(params')
    /\ pressure_grid' = base_grid'
    /\ previous_pressure' = None
    /\ wear_grid' = Full(0)
    /\ comfort_history' = <<>>
    /\ pressure_history' = <<>>
    /\ wear_history' = <<>>
    /\ target_force' = MulDiv(params'.load_factor, params'.activity_load, 100)
    /\ step' = 0
    /\ pc' = "loop"
    /\ UNCHANGED <<procVars, reqVars, run_idx, inputs, raised_in, results, response, returned>>

\* variant: comfort is scored on the evolved grid, before the constraints
LoopStep_ScoresEvolved ==
    /\ pc = "loop"
    /\ step < payload.steps
    /\ LET evolved == evolve_pressure_field(pressure_grid, base_grid, step,
                                            params.activity_variation)
           constrained == apply_constraints(evolved, target_force)
           comfort == compute_comfort(evolved, previous_pressure)
           new_wear == accumulate_wear(wear_grid, constrained, previous_pressure,
                                       params.durability_factor,
                                       params.activity_wear_rate, TIME_STEP)
       IN  /\ wear_grid' = new_wear
           /\ comfort_history' = Append(comfort_history, comfort)
           /\ pressure_history' = Append(pressure_history, constrained)
           /\ wear_history' = Append(wear_history, new_wear)
           /\ previous_pressure' = constrained
           /\ pressure_grid' = constrained
    /\ step' = step + 1
    /\ UNCHANGED <<procVars, reqVars, ctlVars, params, base_grid, target_force>>

\* variant: the histories store references to arrays that the steps update
\* in place, so every entry shows the newest grid
LoopStep_InPlace ==
    /\ pc = "loop"
    /\ step < payload.steps
    /\ LET evolved == evolve_pressure_field(pressure_grid, base_grid, step,
                                            params.activity_variation)
           constrained == apply_constraints(evolved, target_force)
           comfort == compute_comfort(constrained, previous_pressure)
           new_wear == accumulate_wear(wear_grid, constrained, previous_pressure,
                                       params.durability_factor,
                                       params.activity_wear_rate, TIME_STEP)
       IN  /\ wear_grid' = new_wear
           /\ comfort_history' = Append(comfort_history, comfort)
           /\ pressure_history' = [k \in 1 .. (Len(pressure_history) + 1) |-> constrained]
           /\ wear_history' = [k \in 1 .. (Len(wear_history) + 1) |-> new_wear]
           /\ previous_pressure' = constrained
           /\ pressure_grid' = constrained
    /\ step' = step + 1
    /\ UNCHANGED <<procVars, reqVars, ctlVars, params, base_grid, target_force>>

\* lines 190-220: one iteration of the loop
LoopStep ==
    /\ pc = "loop"
    /\ step < payload.steps
    /\ LET evolved == evolve_pressure_field(pressure_grid, base_grid, step,
                                            params.activity_variation)
           constrained == apply_constraints(evolved, target_force)
           comfort == compute_comfort(constrained, previous_pressure)
           new_wear == accumulate_wear(wear_grid, constrained, previous_pressure,
                                       params.durability_factor,
                                       params.activity_wear_rate, TIME_STEP)
       IN  /\ wear_grid' = new_wear
           /\ comfort_history' = Append(comfort_history, comfort)
           /\ pressure_history' = Append(pressure_history, constrained)
           /\ wear_history' = Append(wear_history, new_wear)
           /\ previous_pressure' = constrained
           /\ pressure_grid' = constrained
    /\ step' = step + 1
    /\ UNCHANGED <<procVars, reqVars, ctlVars, params, base_grid, target_force>>

\* lines 222-243 after a loop of zero iterations: comfort_values[-1] raises
AnalyzeRaise ==
    /\ pc = "loop"
    /\ step >= payload.steps
    /\ comfort_history = <<>>
    /\ response' = ErrorResponse(FailedName(payload), Error("", "list index out of range"))
    /\ raised_in' = "run_simulation"
    /\ pc' = "done"
    /\ UNCHANGED <<procVars, reqVars, run_idx, inputs, invocations, results, returned, runVars>>

\* variant: the first wear grid is returned as the final one
SimulationResult_FirstWear ==
    [ final_pressure    |-> Last(pressure_history),
      final_wear        |-> wear_history[1],
      comfort_history   |-> comfort_history,
      wear_history      |-> wear_history,
      scenario_summary  |-> _classify_scenario(
                                _analyze_trends(comfort_history, wear_history,
                                                pressure_history)),
      alignment_summary |-> _align_comfort_and_wear(comfort_history, wear_history) ]

SimulationResult ==
    [ final_pressure    |-> Last(pressure_history),
      final_wear        |-> Last(wear_history),
      comfort_history   |-> comfort_history,
      wear_history      |-> wear_history,
      scenario_summary  |-> _classify_scenario(
                                _analyze_trends(comfort_history, wear_history,
                                                pressure_history)),
      alignment_summary |-> _align_comfort_and_wear(comfort_history, wear_history) ]

\* lines 222-243: analysis and return; run_scenario_comparison then starts
\* the variant run, simulate() builds the response
AnalyzeOk ==
    /\ pc = "loop"
    /\ step >= payload.steps
    /\ comfort_history # <<>>
    /\ results' = Append(results, SimulationResult)
    /\ IF payload.endpoint = "compare" /\ run_idx = 1
       THEN run_idx' = 2 /\ pc' = "run_start"
       ELSE run_idx' = run_idx /\ pc' = "returned"
    /\ UNCHANGED <<procVars, reqVars, inputs, invocations, raised_in, response, returned, runVars>>

\* ------------------------------------------------------------------------
\* app.py: the responses
\* ------------------------------------------------------------------------
_build_simulation_response(sim_result) ==
    LET comfort_start == sim_result.comfort_history[1].comfort_index
        comfort_end == Last(sim_result.comfort_history).comfort_index
    IN  [ overview |->
            [ scenario_type    |-> sim_result.scenario_summary.scenario_type,
              stability        |-> sim_result.scenario_summary.stability,
              alignment_regime |-> sim_result.alignment_summary.alignment_regime,
              comfort_change   |-> comfort_end - comfort_start ],
          key_drivers |->
            [ dominant_pressure_factors |-> sim_result.scenario_summary.dominant_factors,
              scenario_explanation      |-> sim_result.scenario_summary.explanation,
              alignment_interpretation  |-> sim_result.alignment_summary.interpretation ],
          evidence |->
            [ final_comfort |-> comfort_end,
              mean_wear     |-> WearMean(sim_result.final_wear),
              max_wear      |-> WearMax(sim_result.final_wear),
              comfort_drop_normalized |->
                  sim_result.alignment_summary.comfort_drop_normalized,
              wear_growth_normalized |->
                  sim_result.alignment_summary.wear_growth_normalized ],
          raw |-> sim_result ]

RunSummary(sim_result) ==
    [ scenario_summary  |-> sim_result.scenario_summary,
      alignment_summary |-> sim_result.alignment_summary,
      final_comfort     |-> Last(sim_result.comfort_history).comfort_index,
      mean_wear         |-> WearMean(sim_result.final_wear),
      max_wear          |-> WearMax(sim_result.final_wear) ]

\* the tail of run_scenario_comparison (orchestrator.py lines 259-278)
run_scenario_comparison(baseline, variant) ==
    [ baseline         |-> RunSummary(baseline),
      variant          |-> RunSummary(variant),
      what_if_analysis |-> compare_scenarios(baseline, variant) ]

_build_comparison_response(compare_result) ==
    [ overview |->
        [ decision  |-> compare_result.what_if_analysis.verdict.classification,
          rationale |-> compare_result.what_if_analysis.verdict.rationale ],
      baseline |-> compare_result.baseline,
      variant  |-> compare_result.variant,
      analysis |-> compare_result.what_if_analysis ]

RespondSimulate ==
    /\ pc = "returned"
    /\ payload.endpoint = "simulate"
    /\ response' = OkResponse(_build_simulation_response(results[1]))
    /\ pc' = "done"
    /\ UNCHANGED <<procVars, reqVars, run_idx, inputs, invocations, raised_in, results, returned, runVars>>

RespondCompare ==
    /\ pc = "returned"
    /\ payload.endpoint = "compare"
    /\ response' = OkResponse(_build_comparison_response(
                                  run_scenario_comparison(results[1], results[2])))
    /\ pc' = "done"
    /\ UNCHANGED <<procVars, reqVars, run_idx, inputs, invocations, raised_in, results, returned, runVars>>

\* ------------------------------------------------------------------------
\* Requests
\* ------------------------------------------------------------------------
MaxSteps == 3

StepChoices == 0 .. MaxSteps

Nominal ==
    [ body_weight |-> 70, foot_size |-> 42, arch_type |-> "normal",
      activity_mode |-> "walking", sole_stiffness |-> 50, material_durability |-> 50 ]

\* the nominal record with one field changed: the range ends, values the
\* normalizer clamps, NaN, and values validation rejects
SingleRecords ==
    {Nominal}
    \cup {[Nominal EXCEPT !.body_weight = v] :
             v \in {20, 40, 120, 300, NaN, 19, 301, MISSING, BADTYPE}}
    \cup {[Nominal EXCEPT !.foot_size = v] : v \in {30, 50, NaN, 29}}
    \cup {[Nominal EXCEPT !.arch_type = v] :
             v \in {"flat", "high", "FLAT", "arched", MISSING_STR, NOT_A_STRING}}
    \cup {[Nominal EXCEPT !.activity_mode = v] :
             v \in {"standing", "running", "stairs", "jumping", "Jumping", "sprinting"}}
    \cup {[Nominal EXCEPT !.sole_stiffness = v] : v \in {0, 10, 60, 75, 100, NaN, 101}}
    \cup {[Nominal EXCEPT !.material_durability = v] : v \in {0, 100, NaN, 0 - 1}}

\* records compared with each other by /compare
CompareBases ==
    { Nominal,
      [Nominal EXCEPT !.body_weight = 20],
      [Nominal EXCEPT !.material_durability = 100],
      [Nominal EXCEPT !.material_durability = NaN],
      [Nominal EXCEPT !.body_weight = 300, !.foot_size = 30,
                      !.sole_stiffness = 100, !.material_durability = 0] }

CompareRecords ==
    {[b EXCEPT !.activity_mode = a] : b \in CompareBases, a \in {"standing", "jumping"}}

SameBase(a, b) == [a EXCEPT !.activity_mode = "walking"] = [b EXCEPT !.activity_mode = "walking"]

ComparePairs ==
    {<<a, b>> \in CompareRecords \X CompareRecords :
        SameBase(a, b) \/ a = [Nominal EXCEPT !.activity_mode = "standing"]}
    \cup {<<Nominal, [Nominal EXCEPT !.foot_size = 29]>>, <<Nominal>>}

\* runs long enough to have more than five transitions between steps
LongSteps == 7

LongRecords ==
    { Nominal,
      [Nominal EXCEPT !.activity_mode = "standing"],
      [Nominal EXCEPT !.activity_mode = "jumping"],
      [Nominal EXCEPT !.body_weight = 300, !.foot_size = 30, !.arch_type = "flat",
                      !.activity_mode = "jumping", !.sole_stiffness = 100] }

\* records with a body weight at or below the lower end of the load range,
\* the other five inputs at their extremes
LightRecords ==
    { [Nominal EXCEPT !.body_weight = 20, !.foot_size = 30, !.arch_type = "flat",
                      !.activity_mode = "jumping", !.sole_stiffness = 0,
                      !.material_durability = 0],
      [Nominal EXCEPT !.body_weight = 40, !.foot_size = 50, !.arch_type = "high",
                      !.activity_mode = "standing", !.sole_stiffness = 100,
                      !.material_durability = 100],
      [Nominal EXCEPT !.body_weight = 30, !.activity_mode = "running",
                      !.material_durability = NaN] }

Payloads ==
    {[endpoint |-> "simulate", steps |-> n, records |-> <<r>>] :
        n \in StepChoices, r \in SingleRecords}
    \cup {[endpoint |-> "simulate", steps |-> LongSteps, records |-> <<r>>] :
        r \in LongRecords}
    \cup {[endpoint |-> "simulate", steps |-> n, records |-> <<r>>] :
        n \in StepChoices, r \in LightRecords}
    \cup {[endpoint |-> "compare", steps |-> n, records |-> pr] :
        n \in StepChoices, pr \in ComparePairs}

\* ------------------------------------------------------------------------
\* Direct calls of apply_constraints and compute_comfort on arbitrary grids
\* ------------------------------------------------------------------------
HALF_MAX == MAX_CELL_PRESSURE \div 2

Spike == Eager([c \in Cells |-> IF c = At(3, 4) THEN MAX_CELL_PRESSURE ELSE 0])

TwoLevel == Eager([c \in Cells |-> IF RowOf(c) < 6 THEN MAX_CELL_PRESSURE ELSE 100])

Ramp == Eager([c \in Cells |-> 7 * c])

OneNaN == Eager([c \in Cells |-> IF c = At(0, 0) THEN NaN ELSE 300])

OutOfRange == Eager([c \in Cells |-> IF ColOf(c) < 2 THEN 2 * MAX_CELL_PRESSURE
                                     ELSE IF ColOf(c) < 4 THEN 0 - 200 ELSE 400])

CallGrids ==
    { Full(0), Full(HALF_MAX), Full(MAX_CELL_PRESSURE), Full(NaN),
      Spike, TwoLevel, Ramp, OneNaN, OutOfRange }

CallTargets ==
    { 0, 1, ONE \div 2, ONE, (16 * ONE) \div 10, _max_representable_force - 1,
      _max_representable_force, _max_representable_force + 1,
      2 * _max_representable_force }

\* records handed to normalize_inputs without validation
NormalizeRecords ==
    {Nominal}
    \cup {[Nominal EXCEPT !.body_weight = v] :
             v \in {0 - 50, 0, 39, 40, 41, 80, 119, 120, 121, 1000, NaN}}
    \cup {[Nominal EXCEPT !.foot_size = v] : v \in {0, 35, 36, 39, 48, 49, 100, NaN}}
    \cup {[Nominal EXCEPT !.sole_stiffness = v] : v \in {0 - 100, 0, 100, 250, NaN}}
    \cup {[Nominal EXCEPT !.material_durability = v] : v \in {0 - 100, 0, 100, 250, NaN}}
    \cup {[Nominal EXCEPT !.activity_mode = "sprinting", !.arch_type = "arched"]}

\* a comfort record with penalty a at 0.8, penalty b at 0.6, the others at low
TwoHigh(a, b, low) ==
    [ comfort_index |-> 50,
      penalties |-> [n \in {PenaltyNames[k] : k \in 1 .. Len(PenaltyNames)} |->
                        IF n = a THEN 800 ELSE IF n = b THEN 600 ELSE low] ]

\* comfort histories for _analyze_trends: one step with two penalties above
\* the rest, all penalties equal, and two steps whose sums order the names
\* differently from either step
ComfortHistories ==
    {<<TwoHigh(PenaltyNames[a], PenaltyNames[b], 100)>> :
        a \in 1 .. Len(PenaltyNames), b \in 1 .. Len(PenaltyNames)}
    \cup {<<TwoHigh("", "", 0)>>, <<TwoHigh("", "", 300)>>}
    \cup {<<TwoHigh("pressure_peak", "asymmetry", 0), TwoHigh("zone_bias", "asymmetry", 0)>>,
          <<TwoHigh("temporal_variation", "zone_bias", 700),
            TwoHigh("temporal_variation", "pressure_persistence", 0)>>}

Calls ==
    {[endpoint |-> "apply_constraints", grid |-> gr, target |-> t] :
        gr \in CallGrids, t \in CallTargets}
    \cup {[endpoint |-> "compute_comfort", grid |-> gr, previous |-> pv] :
        gr \in CallGrids, pv \in CallGrids \cup {None}}
    \cup {[endpoint |-> "normalize_inputs", record |-> r] : r \in NormalizeRecords}
    \cup {[endpoint |-> "_classify_scenario", comfort_history |-> ch] :
            ch \in ComfortHistories}

CallNormalizeInputs ==
    /\ pc = "call"
    /\ payload.endpoint = "normalize_inputs"
    /\ returned' = normalize_inputs(payload.record)
    /\ pc' = "done"
    /\ UNCHANGED <<procVars, reqVars, run_idx, inputs, invocations, raised_in, results,
                   response, runVars>>

CallApplyConstraints ==
    /\ pc = "call"
    /\ payload.endpoint = "apply_constraints"
    /\ returned' = apply_constraints(payload.grid, payload.target)
    /\ pc' = "done"
    /\ UNCHANGED <<procVars, reqVars, run_idx, inputs, invocations, raised_in, results,
                   response, runVars>>

CallComputeComfort ==
    /\ pc = "call"
    /\ payload.endpoint = "compute_comfort"
    /\ returned' = compute_comfort(payload.grid, payload.previous)
    /\ pc' = "done"
    /\ UNCHANGED <<procVars, reqVars, run_idx, inputs, invocations, raised_in, results,
                   response, runVars>>

\* _classify_scenario(_analyze_trends(...)) as run_simulation calls it, on
\* a given comfort history and flat wear and pressure histories
CallClassifyScenario ==
    /\ pc = "call"
    /\ payload.endpoint = "_classify_scenario"
    /\ returned' = _classify_scenario(
                       _analyze_trends(payload.comfort_history,
                                       [k \in 1 .. Len(payload.comfort_history) |-> Full(0)],
                                       [k \in 1 .. Len(payload.comfort_history) |-> Full(HALF_MAX)]))
    /\ pc' = "done"
    /\ UNCHANGED <<procVars, reqVars, run_idx, inputs, invocations, raised_in, results,
                   response, runVars>>

\* the dictionaries as the module defines them
Tables ==
    [ ACTIVITY_PROFILE |-> ACTIVITY_PROFILE,
      ARCH_BIAS        |-> ARCH_BIAS,
      COMFORT_WEIGHTS  |-> COMFORT_WEIGHTS ]

Idle ==
    /\ tables = Tables
    /\ threads = <<>>
    /\ run_idx = 0
    /\ inputs = <<>>
    /\ invocations = 0
    /\ raised_in = "none"
    /\ results = <<>>
    /\ response = NoResponse
    /\ returned = None
    /\ params = None
    /\ base_grid = None
    /\ pressure_grid = None
    /\ previous_pressure = None
    /\ wear_grid = None
    /\ step = 0
    /\ target_force = 0
    /\ comfort_history = <<>>
    /\ pressure_history = <<>>
    /\ wear_history = <<>>

Init ==
    /\ \/ payload \in Payloads /\ pc = "received"
       \/ payload \in Calls /\ pc = "call"
    /\ Idle

Next ==
    \/ ValidateFail
    \/ ValidateOk
    \/ RunStartRaise
    \/ RunStartOk
    \/ LoopStep
    \/ AnalyzeRaise
    \/ AnalyzeOk
    \/ RespondSimulate
    \/ RespondCompare
    \/ CallApplyConstraints
    \/ CallComputeComfort
    \/ CallNormalizeInputs
    \/ CallClassifyScenario

Spec == Init /\ [][Next]_vars

\* ------------------------------------------------------------------------
\* A caller that invokes run_simulation several times in one process
\* ------------------------------------------------------------------------
MaxRuns == 3

MaxRunSteps == 2

RunRecords ==
    { Nominal,
      [Nominal EXCEPT !.activity_mode = "jumping", !.body_weight = 300, !.foot_size = 30,
                      !.sole_stiffness = 100, !.material_durability = 0] }

DirectCall(r, n) == [endpoint |-> "direct", steps |-> n, records |-> <<r>>]

InitRuns ==
    /\ \E r \in RunRecords, n \in 1 .. MaxRunSteps :
          /\ payload = DirectCall(r, n)
          /\ inputs = <<r>>
    /\ pc = "run_start"
    /\ tables = Tables
    /\ threads = <<>>
    /\ run_idx = 1
    /\ invocations = 0
    /\ raised_in = "none"
    /\ results = <<>>
    /\ response = NoResponse
    /\ returned = None
    /\ params = None
    /\ base_grid = None
    /\ pressure_grid = None
    /\ previous_pressure = None
    /\ wear_grid = None
    /\ step = 0
    /\ target_force = 0
    /\ comfort_history = <<>>
    /\ pressure_history = <<>>
    /\ wear_history = <<>>

\* the next invocation, made after the previous one returned; the locals of
\* the previous invocation are still in memory
CallAgain ==
    /\ pc = "returned"
    /\ payload.endpoint = "direct"
    /\ Len(inputs) < MaxRuns
    /\ \E r \in RunRecords, n \in 1 .. MaxRunSteps :
          /\ payload' = DirectCall(r, n)
          /\ inputs' = Append(inputs, r)
    /\ run_idx' = run_idx + 1
    /\ pc' = "run_start"
    /\ UNCHANGED <<procVars, invocations, raised_in, results, response, returned, runVars>>

NextRuns ==
    \/ CallAgain
    \/ RunStartOk
    \/ LoopStep
    \/ AnalyzeOk

SpecRuns == InitRuns /\ [][NextRuns]_vars

\* ------------------------------------------------------------------------
\* The jumping-versus-standing scenario: /compare over ScenarioSteps steps
\* ------------------------------------------------------------------------
ScenarioSteps == 100

ScenarioBases ==
    { Nominal,
      [Nominal EXCEPT !.body_weight = 20],
      [Nominal EXCEPT !.body_weight = 40, !.arch_type = "flat"],
      [Nominal EXCEPT !.material_durability = 100],
      [Nominal EXCEPT !.body_weight = 300, !.foot_size = 30, !.arch_type = "high",
                      !.sole_stiffness = 100, !.material_durability = 0] }

ScenarioPayloads ==
    {[endpoint |-> "compare", steps |-> ScenarioSteps,
      records |-> << [b EXCEPT !.activity_mode = "standing"],
                     [b EXCEPT !.activity_mode = "jumping"] >>] : b \in ScenarioBases}

InitScenario ==
    /\ payload \in ScenarioPayloads
    /\ pc = "received"
    /\ Idle

NextScenario ==
    \/ ValidateOk
    \/ RunStartOk
    \/ LoopStep
    \/ AnalyzeOk
    \/ RespondCompare

SpecScenario == InitScenario /\ [][NextScenario]_vars

\* ------------------------------------------------------------------------
\* Two run_simulation calls side by side (the baseline and the variant of a
\* comparison on two threads), their steps interleaved in every order
\* ------------------------------------------------------------------------
ThreadSteps == 2

Threads == 1 .. 2

ThreadRecords ==
    { [Nominal EXCEPT !.activity_mode = "standing"],
      [Nominal EXCEPT !.activity_mode = "jumping"],
      [Nominal EXCEPT !.body_weight = 300, !.foot_size = 30, !.arch_type = "flat",
                      !.sole_stiffness = 100, !.material_durability = 0] }

\* the locals of a call that has not started
NotStarted(record) == [pc |-> "run_start", record |-> record]

\* orchestrator.py lines 175-188 on the locals of one call
StartLocals(record) ==
    LET p == normalize_inputs(record)
        base == generate_pressure_field(p)
    IN  [ pc                |-> "loop",
          record            |-> record,
          params            |-> p,
          base_grid         |-> base,
          pressure_grid     |-> base,
          previous_pressure |-> None,
          wear_grid         |-> Full(0),
          comfort_history   |-> <<>>,
          pressure_history  |-> <<>>,
          wear_history      |-> <<>>,
          target_force      |-> MulDiv(p.load_factor, p.activity_load, 100),
          step              |-> 0 ]

\* orchestrator.py lines 190-220: one iteration, starting from the wear
\* array previous_wear
StepFrom(l, previous_wear) ==
    LET evolved == evolve_pressure_field(l.pressure_grid, l.base_grid, l.step,
                                         l.params.activity_variation)
        constrained == apply_constraints(evolved, l.target_force)
        comfort == compute_comfort(constrained, l.previous_pressure)
        new_wear == accumulate_wear(previous_wear, constrained, l.previous_pressure,
                                    l.params.durability_factor,
                                    l.params.activity_wear_rate, TIME_STEP)
    IN  [ l EXCEPT !.wear_grid = new_wear,
                   !.comfort_history = Append(l.comfort_history, comfort),
                   !.pressure_history = Append(l.pressure_history, constrained),
                   !.wear_history = Append(l.wear_history, new_wear),
                   !.previous_pressure = constrained,
                   !.pressure_grid = constrained,
                   !.step = l.step + 1 ]

StepLocals(l) == StepFrom(l, l.wear_grid)

\* orchestrator.py lines 222-243 on the locals of one call
ResultFrom(l) ==
    [ final_pressure    |-> Last(l.pressure_history),
      final_wear        |-> Last(l.wear_history),
      comfort_history   |-> l.comfort_history,
      wear_history      |-> l.wear_history,
      scenario_summary  |-> _classify_scenario(
                                _analyze_trends(l.comfort_history, l.wear_history,
                                                l.pressure_history)),
      alignment_summary |-> _align_comfort_and_wear(l.comfort_history, l.wear_history) ]

\* the call executed alone, from its first line to its return
RECURSIVE StepsAlone(_, _)
StepsAlone(l, n) == IF n = 0 THEN l ELSE StepsAlone(StepLocals(l), n - 1)

RunAlone(record, n) == ResultFrom(StepsAlone(StartLocals(record), n))

InitThreads ==
    /\ payload = [endpoint |-> "threads", steps |-> ThreadSteps]
    /\ pc = "threads"
    /\ tables = Tables
    /\ \E a \in ThreadRecords, b \in ThreadRecords :
          threads = <<NotStarted(a), NotStarted(b)>>
    /\ run_idx = 0
    /\ inputs = <<>>
    /\ invocations = 0
    /\ raised_in = "none"
    /\ results = <<>>
    /\ response = NoResponse
    /\ returned = None
    /\ params = None
    /\ base_grid = None
    /\ pressure_grid = None
    /\ previous_pressure = None
    /\ wear_grid = None
    /\ step = 0
    /\ target_force = 0
    /\ comfort_history = <<>>
    /\ pressure_history = <<>>
    /\ wear_history = <<>>

ThreadStart(t) ==
    /\ pc = "threads"
    /\ threads[t].pc = "run_start"
    /\ threads' = [threads EXCEPT ![t] = StartLocals(threads[t].record)]
    /\ UNCHANGED <<reqVars, ctlVars, runVars, tables>>

\* variant: the wear array is one module-level array used by both calls
ThreadStep_SharedWear(t) ==
    /\ pc = "threads"
    /\ threads[t].pc = "loop"
    /\ threads[t].step < payload.steps
    /\ threads' = [threads EXCEPT ![t] =
                      StepFrom(threads[t],
                               IF threads[3 - t].pc = "run_start" THEN threads[t].wear_grid
                               ELSE threads[3 - t].wear_grid)]
    /\ UNCHANGED <<reqVars, ctlVars, runVars, tables>>

ThreadStep(t) ==
    /\ pc = "threads"
    /\ threads[t].pc = "loop"
    /\ threads[t].step < payload.steps
    /\ threads' = [threads EXCEPT ![t] = StepLocals(threads[t])]
    /\ UNCHANGED <<reqVars, ctlVars, runVars, tables>>

ThreadReturn(t) ==
    /\ pc = "threads"
    /\ threads[t].pc = "loop"
    /\ threads[t].step >= payload.steps
    /\ threads' = [threads EXCEPT ![t] =
                      [pc |-> "returned", record |-> threads[t].record,
                       result |-> ResultFrom(threads[t])]]
    /\ UNCHANGED <<reqVars, ctlVars, runVars, tables>>

NextThreads ==
    \/ \E t \in Threads : ThreadStart(t)
    \/ \E t \in Threads : ThreadStep(t)
    \/ \E t \in Threads : ThreadReturn(t)

SpecThreads == InitThreads /\ [][NextThreads]_vars

\* ------------------------------------------------------------------------
\* Properties
\* ------------------------------------------------------------------------
Finite(x) == ~IsNaN(x)

PressureBounded(grid) ==
    \A c \in Cells : Finite(grid[c]) /\ 0 <= grid[c] /\ grid[c] <= MAX_CELL_PRESSURE

WearBounded(grid) ==
    \A c \in Cells : Finite(grid[c]) /\ 0 <= grid[c] /\ grid[c] <= MAX_WEAR

\* C1: for every record accepted by validation and every steps >= 1, every
\* pressure grid recorded by a step of run_simulation is finite and has
\* every cell in [0, MAX_CELL_PRESSURE].
C1_PressureFiniteBounded ==
    \A k \in 1 .. Len(pressure_history) : PressureBounded(pressure_history[k])

\* C2: for every record accepted by validation and every steps >= 1,
\* wear_history is cell-wise non-decreasing from one step to the next and
\* every cell of every wear grid lies in [0, MAX_WEAR].
C2_WearMonotoneBounded ==
    \A k \in 1 .. Len(wear_history) :
        /\ WearBounded(wear_history[k])
        /\ k > 1 => \A c \in Cells : Ge(wear_history[k][c], wear_history[k - 1][c])

\* C4: once a record has passed validate_simulation_inputs, run_simulation
\* with steps >= 1 returns a result without raising.
C4_RunTotal ==
    payload.endpoint \in {"simulate", "compare"} /\ payload.steps >= 1
        => raised_in # "run_simulation"

\* C5: an error response is produced only before any simulation has started:
\* once run_simulation has been invoked the request never ends with an error.
C5_ErrorsOnlyAtValidation ==
    response.status = 400 => invocations = 0

\* the steps argument of the k-th returned invocation: one record per step
StepsOf(k) == Len(results[k].comfort_history)

\* C3: two invocations of run_simulation with identical inputs and identical
\* steps, in any order and with any other runs in between, return exactly
\* equal comfort_history, wear_history, final_pressure, scenario_summary and
\* alignment_summary.
C3_Deterministic ==
    \A a, b \in 1 .. Len(results) :
        inputs[a] = inputs[b] /\ StepsOf(a) = StepsOf(b)
            => /\ results[a].comfort_history = results[b].comfort_history
               /\ results[a].wear_history = results[b].wear_history
               /\ results[a].final_pressure = results[b].final_pressure
               /\ results[a].final_wear = results[b].final_wear
               /\ results[a].scenario_summary = results[b].scenario_summary
               /\ results[a].alignment_summary = results[b].alignment_summary

\* the same call made twice with a different run in between, all returned
C3_Witness ==
    /\ Len(results) = 3
    /\ inputs[1] = inputs[3]
    /\ StepsOf(1) = StepsOf(3)
    /\ inputs[2] # inputs[1]
    /\ StepsOf(2) # StepsOf(1)

\* the fixed-point sum of a grid scaled to a target differs from the target
\* by less than one unit per cell
SumTolerance == NCells

SumEquals(grid, force) ==
    Finite(Sum(grid)) /\ Finite(force) /\ Abs(Sum(grid) - force) <= SumTolerance

Uniform(grid) == \A c \in Cells : grid[c] = grid[0]

\* C6: for an arbitrary grid and any target, apply_constraints returns a grid
\* whose sum equals the target if 0 <= target <= MAX_CELL_PRESSURE * rows * cols
\* and equals MAX_CELL_PRESSURE * rows * cols if the target is greater.
C6_ForceConservedWhenRepresentable ==
    pc = "done" /\ payload.endpoint = "apply_constraints" =>
        /\ 0 <= payload.target /\ payload.target <= _max_representable_force
              => SumEquals(returned, payload.target)
        /\ payload.target > _max_representable_force
              => SumEquals(returned, _max_representable_force)

ComfortBounded(record) ==
    /\ record.comfort_index \in 0 .. 100
    /\ \A n \in DOMAIN record.penalties :
          0 <= record.penalties[n] /\ record.penalties[n] <= 1000
    /\ DOMAIN record.penalties = SeqToSet(PenaltyNames)

\* C8: for every pressure grid and every previous grid (including none)
\* compute_comfort returns an integer comfort_index in [0, 100] and six
\* penalties each in [0, 1]; so does every record of comfort_history.
C8_ComfortBounded ==
    /\ pc = "done" /\ payload.endpoint = "compute_comfort" => ComfortBounded(returned)
    /\ \A k \in 1 .. Len(comfort_history) : ComfortBounded(comfort_history[k])

\* a direct call on a grid with out-of-range cells and a previous grid has
\* returned penalties that the clamp had to cut
C8_Witness ==
    /\ pc = "done" /\ payload.endpoint = "compute_comfort"
    /\ payload.grid = OutOfRange /\ payload.previous = Spike
    /\ returned.penalties.pressure_peak = 1000
    /\ returned.comfort_index < 100

\* C9: comparing a completed result with an identical copy of itself yields
\* zero comfort, mean-wear and max-wear deltas, an alignment change with
\* from = to, empty reduced and introduced sets, and a verdict of
\* "equivalent" or "strictly_better".
C9_SelfCompareNeutral ==
    \A k \in 1 .. Len(results) :
        LET c == compare_scenarios(results[k], results[k])
        IN  /\ c.outcome_deltas.comfort_delta = 0
            /\ c.outcome_deltas.mean_wear_delta = 0
            /\ c.outcome_deltas.max_wear_delta = 0
            /\ c.outcome_deltas.alignment_change.from = c.outcome_deltas.alignment_change.to
            /\ c.mechanism_attribution.dominant_factor_shift.reduced = {}
            /\ c.mechanism_attribution.dominant_factor_shift.introduced = {}
            /\ c.verdict.classification \in {"equivalent", "strictly_better"}

\* both runs of a standing-versus-jumping comparison have returned
ScenarioDone ==
    /\ payload.endpoint = "compare"
    /\ Len(results) = 2
    /\ SameBase(inputs[1], inputs[2])
    /\ inputs[1].activity_mode = "standing"
    /\ inputs[2].activity_mode = "jumping"
    /\ payload.steps = ScenarioSteps

NumberIn(value, lo, hi) ==
    /\ value \notin {MISSING, BADTYPE}
    /\ Finite(value)
    /\ lo <= value /\ value <= hi

\* a raw record has all six fields, numbers in range and recognised enums
WellFormed(record) ==
    /\ NumberIn(record.body_weight, 20, 300)
    /\ NumberIn(record.foot_size, 30, 50)
    /\ NumberIn(record.sole_stiffness, 0, 100)
    /\ NumberIn(record.material_durability, 0, 100)
    /\ record.arch_type \notin {MISSING_STR, NOT_A_STRING}
    /\ Lower(record.arch_type) \in ALLOWED_ARCH_TYPES
    /\ record.activity_mode \notin {MISSING_STR, NOT_A_STRING}
    /\ Lower(record.activity_mode) \in ALLOWED_ACTIVITY_MODES

IsRequest == payload.endpoint \in {"simulate", "compare"}

\* C11: validate_simulation_inputs returns a sanitized record only if all six
\* fields are present, the four numbers are of numeric type and within
\* their ranges and the two enums are recognised; otherwise it raises with
\* a message and the handler starts no simulation.
C11_ValidationSound ==
    IsRequest =>
        /\ inputs # <<>> => \A k \in 1 .. Len(payload.records) : WellFormed(payload.records[k])
        /\ (\E k \in 1 .. Len(payload.records) : ~WellFormed(payload.records[k]))
              => /\ invocations = 0
                 /\ pc = "done" => /\ response.status = 400
                                   /\ raised_in = "validation"
                                   /\ response.message # NoError

ParamsBounded(p) ==
    /\ Finite(p.load_factor) /\ 0 <= p.load_factor /\ p.load_factor <= ONE
    /\ Finite(p.contact_capacity) /\ 0 <= p.contact_capacity /\ p.contact_capacity <= ONE
    /\ Finite(p.stiffness_factor) /\ 0 <= p.stiffness_factor /\ p.stiffness_factor <= 100
    /\ Finite(p.durability_factor) /\ 0 <= p.durability_factor /\ p.durability_factor <= 100

\* C12: normalize_inputs never produces a parameter outside its bounds, also
\* when called directly with out-of-range values: load_factor,
\* contact_capacity, stiffness_factor and durability_factor lie in [0, 1],
\* body_weight >= 120 gives load_factor exactly 1 and body_weight <= 40 gives 0.
C12_NormalizedInBounds ==
    /\ pc = "done" /\ payload.endpoint = "normalize_inputs" =>
          /\ ParamsBounded(returned)
          /\ Ge(payload.record.body_weight, 120) => returned.load_factor = ONE
          /\ Le(payload.record.body_weight, 40) => returned.load_factor = 0
    /\ IsRequest /\ params # None => ParamsBounded(params)

PcMoves ==
    { <<"received", "run_start">>, <<"received", "done">>,
      <<"run_start", "loop">>, <<"run_start", "done">>,
      <<"loop", "returned">>, <<"loop", "run_start">>, <<"loop", "done">>,
      <<"returned", "done">>, <<"call", "done">> }

\* C14: normalization and base-grid generation happen once, before the first
\* step; every step evolves the constrained grid of the previous step (the
\* base grid at step 0), constrains it, and scores comfort and wear on the
\* constrained grid against the constrained grid of the previous step (none
\* at step 0); the analysis runs only after all steps.
C14_StepOrder ==
    [][ /\ pc' # pc => <<pc, pc'>> \in PcMoves
        /\ pc = "loop" =>
              /\ params' = params
              /\ base_grid' = base_grid
              /\ target_force' = target_force
        /\ pc = "loop" /\ step' = step + 1 =>
              LET from == IF step = 0 THEN base_grid ELSE pressure_history[step]
                  before == IF step = 0 THEN None ELSE pressure_history[step]
                  worn == IF step = 0 THEN Full(0) ELSE wear_history[step]
                  constrained ==
                      apply_constraints(
                          evolve_pressure_field(from, base_grid, step,
                                                params.activity_variation),
                          target_force)
              IN  /\ pressure_history'[step'] = constrained
                  /\ comfort_history'[step'] = compute_comfort(constrained, before)
                  /\ wear_history'[step'] =
                        accumulate_wear(worn, constrained, before,
                                        params.durability_factor,
                                        params.activity_wear_rate, TIME_STEP)
        /\ Len(results') > Len(results) =>
              /\ pc = "loop"
              /\ step = payload.steps
              /\ Len(comfort_history) = payload.steps
              /\ Len(pressure_history) = payload.steps
              /\ Len(wear_history) = payload.steps
      ]_vars

\* all MaxSteps steps of a run are done and the analysis has not run yet
C14_Witness ==
    /\ IsRequest
    /\ pc = "loop"
    /\ step = MaxSteps
    /\ payload.steps = MaxSteps
    /\ Len(results) = run_idx - 1
    /\ previous_pressure = pressure_history[MaxSteps]
    /\ pressure_history[MaxSteps] # pressure_history[MaxSteps - 1]
    /\ comfort_history[MaxSteps] # comfort_history[1]

\* the base grid is still the grid generated from the parameters of the run
BaseIntact ==
    base_grid # None /\ params # None /\ ~generate_raises(params)
        => base_grid = generate_pressure_field(params)

\* C15: once a step has appended its pressure grid, wear grid and comfort
\* record, no later step changes an entry at or below that index, returned
\* results are never altered, and the base grid keeps the cell values it
\* was generated with until the end of the run.
C15_Snapshots ==
    /\ []BaseIntact
    /\ [][ /\ pc = "loop" =>
                 /\ base_grid' = base_grid
                 /\ \A k \in 1 .. Len(pressure_history) :
                       pressure_history'[k] = pressure_history[k]
                 /\ \A k \in 1 .. Len(wear_history) : wear_history'[k] = wear_history[k]
                 /\ \A k \in 1 .. Len(comfort_history) :
                       comfort_history'[k] = comfort_history[k]
           /\ \A k \in 1 .. Len(results) : results'[k] = results[k]
         ]_vars

\* the last step has appended entries that differ from the earlier ones and
\* from the base grid
C15_Witness ==
    /\ IsRequest
    /\ step = MaxSteps
    /\ Len(wear_history) = MaxSteps
    /\ wear_history[1] # wear_history[MaxSteps]
    /\ pressure_history[1] # pressure_history[MaxSteps]
    /\ pressure_grid # base_grid
    /\ BaseIntact

PreSmooth(p) ==
    _apply_contact_capacity(
        _expand_to_grid(_apply_arch_bias(_base_longitudinal_profile, p.arch_bias)),
        p.contact_capacity)

\* the cells next to c in its row or in its column
Neighbours(c) ==
    {d \in Cells :
        \/ RowOf(d) = RowOf(c) /\ (ColOf(d) = ColOf(c) + 1 \/ ColOf(d) = ColOf(c) - 1)
        \/ ColOf(d) = ColOf(c) /\ (RowOf(d) = RowOf(c) + 1 \/ RowOf(d) = RowOf(c) - 1)}

RECURSIVE SumOver(_, _)
SumOver(grid, S) ==
    IF S = {} THEN 0
    ELSE LET d == CHOOSE x \in S : TRUE IN grid[d] + SumOver(grid, S \ {d})

\* one Jacobi iteration: every cell becomes the average of itself and its
\* existing neighbours, all read from the grid of the previous iteration
Jacobi(grid) ==
    Eager([c \in Cells |->
        (grid[c] + SumOver(grid, Neighbours(c))) \div (1 + Cardinality(Neighbours(c)))])

RECURSIVE JacobiN(_, _)
JacobiN(grid, n) == IF n = 0 THEN grid ELSE JacobiN(Jacobi(grid), n - 1)

BaseBuilt == base_grid # None /\ params # None /\ Finite(params.stiffness_factor)

\* the smoothing as stated: round((1 - stiffness_factor) * 4) iterations
C17_AsStated ==
    BaseBuilt
        => base_grid = JacobiN(PreSmooth(params),
                               ((100 - params.stiffness_factor) * 4 + 50) \div 100)

\* C17: for every stiffness_factor in [0, 1] the base grid is the
\* pre-smoothing grid after exactly int((1 - stiffness_factor) * 4) Jacobi
\* iterations (the product truncated, not rounded), each replacing every
\* cell by the average of itself and its existing 4-neighbours, all cells
\* computed from the grid of the previous iteration.
C17_TruncatedJacobi ==
    BaseBuilt
        => /\ 0 <= params.stiffness_factor /\ params.stiffness_factor <= 100
           /\ base_grid = JacobiN(PreSmooth(params),
                                  ((100 - params.stiffness_factor) * 4) \div 100)

\* a base grid smoothed three times where rounding would smooth four
\* times, and the fourth iteration would have changed it
C17_Witness ==
    /\ BaseBuilt
    /\ params.stiffness_factor = 10
    /\ base_grid = JacobiN(PreSmooth(params), 3)
    /\ base_grid # PreSmooth(params)
    /\ Jacobi(base_grid) # base_grid

\* a /compare request answered with a comparison
Compared ==
    /\ pc = "done"
    /\ payload.endpoint = "compare"
    /\ response.status = 200
    /\ Len(results) = 2

\* variant final comfort minus baseline final comfort
ComfortDelta ==
    Last(results[2].comfort_history).comfort_index
        - Last(results[1].comfort_history).comfort_index

\* mean of the variant's final wear minus mean of the baseline's
MeanWearDelta == Sub(WearMean(results[2].final_wear), WearMean(results[1].final_wear))

\* C18: the tradeoff type and the verdict follow the ordered rules over
\* comfort_delta and mean_wear_delta: no_tradeoff if comfort_delta >= 0 and
\* wear delta <= 0, durability_tradeoff if both negative, comfort_tradeoff
\* if both positive, else neutral; strictly_better exactly for no_tradeoff,
\* tradeoff exactly for the two tradeoff types with the summary as
\* rationale, and for neutral equivalent if |comfort_delta| < 5 and
\* |mean_wear_delta| < 0.01, else worse; exactly one verdict is assigned.
C18_TradeoffRules ==
    Compared =>
        LET a == response.body.analysis
            type == a.tradeoff_analysis.type
            verdict == a.verdict.classification
            cd == ComfortDelta
            wd == MeanWearDelta
            within == Abs(cd) < 5 /\ Lt(Abs(wd), MAX_WEAR \div 100)
        IN  /\ a.outcome_deltas.comfort_delta = cd
            /\ type \in {"no_tradeoff", "durability_tradeoff", "comfort_tradeoff", "neutral"}
            /\ (type = "no_tradeoff") = (cd >= 0 /\ Le(wd, 0))
            /\ (type = "durability_tradeoff") = (cd < 0 /\ Lt(wd, 0))
            /\ (type = "comfort_tradeoff") = (cd > 0 /\ Gt(wd, 0))
            /\ verdict \in {"strictly_better", "tradeoff", "equivalent", "worse"}
            /\ (verdict = "strictly_better") = (type = "no_tradeoff")
            /\ (verdict = "tradeoff") = (type \in {"durability_tradeoff", "comfort_tradeoff"})
            /\ verdict = "tradeoff" => a.verdict.rationale = a.tradeoff_analysis.summary
            /\ type = "neutral" => (verdict = "equivalent") = within
            /\ response.body.overview.decision = verdict

\* a comparison with finite deltas that no tradeoff rule matches and that
\* lies outside the tolerance: comfort falls by 5 or more, or wear rises
\* by 0.01 or more
C18_Witness ==
    /\ Compared
    /\ ~IsNaN(MeanWearDelta)
    /\ ~(ComfortDelta >= 0 /\ MeanWearDelta <= 0)
    /\ ~(ComfortDelta < 0 /\ MeanWearDelta < 0)
    /\ ~(ComfortDelta > 0 /\ MeanWearDelta > 0)
    /\ (Abs(ComfortDelta) >= 5 \/ Abs(MeanWearDelta) >= MAX_WEAR \div 100)
    /\ response.body.overview.decision = "worse"

\* the histories in the state are those of the run that returned last
Analyzed ==
    /\ results # <<>>
    /\ pc \in {"run_start", "returned", "done"}
    /\ Len(pressure_history) = payload.steps

Transitions == Len(pressure_history) - 1

\* mean absolute pressure difference between step k and step k + 1
StepDelta(k) == Mean(AbsDiff(pressure_history[k + 1], pressure_history[k]))

\* mean of the step deltas over the last five transitions, over all of
\* them if there are fewer, 0 for a run of fewer than two steps
RecentPressureDelta ==
    LET first == IF Transitions > 5 THEN Transitions - 4 ELSE 1
        total == SumRange([k \in 1 .. Transitions |-> StepDelta(k)], first, Transitions)
    IN  IF Len(pressure_history) < 2 THEN 0
        ELSE IF IsNaN(total) THEN NaN
        ELSE total \div (Transitions - first + 1)

ComfortSlope ==
    Last(comfort_history).comfort_index - comfort_history[1].comfort_index

\* C19: the stability label is "degrading" if comfort_slope (last
\* comfort_index minus first) < -20; else "stable" if pressure_delta < 1e-3,
\* pressure_delta being the mean of the inter-step mean absolute pressure
\* differences over the last 5 transitions (all if fewer, 0 for fewer than 2
\* steps); else "saturated"; it is always one of the three.
C19_StabilityLabel ==
    Analyzed =>
        LET stability == Last(results).scenario_summary.stability
        IN  /\ stability \in {"degrading", "stable", "saturated"}
            /\ (stability = "degrading") = (ComfortSlope < 0 - 20)
            /\ (stability = "stable") =
                   (ComfortSlope >= 0 - 20 /\ Lt(RecentPressureDelta, PRESSURE_DELTA_STABLE))
            /\ _analyze_trends(comfort_history, wear_history,
                               pressure_history).pressure_delta = RecentPressureDelta

\* a run whose comfort fell by more than 20 while its pressure settled:
\* both rules match and the first one decides
C19_Witness ==
    /\ Analyzed
    /\ Transitions >= 1
    /\ ComfortSlope < 0 - 20
    /\ Lt(RecentPressureDelta, PRESSURE_DELTA_STABLE)
    /\ Last(results).scenario_summary.stability = "degrading"

PenaltyNameSet == {PenaltyNames[k] : k \in 1 .. Len(PenaltyNames)}

\* the sum of penalty n over the steps of a comfort history
PenaltySum(history, n) ==
    SumSeq([k \in 1 .. Len(history) |-> history[k].penalties[n]])

\* the summary lists the two largest sums of the history in descending
\* order and names the scenario type by the first listed name that matches
DominantRules(history, summary) ==
    LET df == summary.dominant_factors
        listed == SeqToSet(df)
        type == summary.scenario_type
    IN  /\ Len(df) = 2
        /\ listed \subseteq PenaltyNameSet
        /\ Cardinality(listed) = 2
        /\ PenaltySum(history, df[1]) >= PenaltySum(history, df[2])
        /\ \A n \in listed, m \in PenaltyNameSet \ listed :
              PenaltySum(history, n) >= PenaltySum(history, m)
        /\ (type = "imbalance-driven") = ("asymmetry" \in listed)
        /\ (type = "fatigue-driven") =
               ("asymmetry" \notin listed /\ "high_pressure_area" \in listed)
        /\ (type = "overload-driven") =
               ({"asymmetry", "high_pressure_area"} \cap listed = {}
                /\ "pressure_peak" \in listed)
        /\ (type = "stable") =
               ({"asymmetry", "high_pressure_area", "pressure_peak"} \cap listed = {})

Classified == pc = "done" /\ payload.endpoint = "_classify_scenario"

\* C20: dominant_factors lists the top two penalty names of the six sums
\* over all steps in descending order (every listed name has a sum >= that
\* of every unlisted name), and scenario_type is "imbalance-driven" if
\* asymmetry is listed; else "fatigue-driven" if high_pressure_area is;
\* else "overload-driven" if pressure_peak is; else "stable".
C20_DominantFactors ==
    /\ \A k \in 1 .. Len(results) :
          DominantRules(results[k].comfort_history, results[k].scenario_summary)
    /\ Classified => DominantRules(payload.comfort_history, returned)

\* a two-step history in which asymmetry is second in both steps and first
\* by its sum, with pressure_peak listed after it, level with zone_bias:
\* the first rule decides
C20_Witness ==
    /\ Classified
    /\ Len(payload.comfort_history) = 2
    /\ returned.dominant_factors = <<"asymmetry", "pressure_peak">>
    /\ PenaltySum(payload.comfort_history, "asymmetry")
           > PenaltySum(payload.comfort_history, "pressure_peak")
    /\ PenaltySum(payload.comfort_history, "pressure_peak")
           = PenaltySum(payload.comfort_history, "zone_bias")
    /\ returned.scenario_type = "imbalance-driven"

\* the locals in the state are those of a run_simulation call on a record
\* that validation accepted with a body weight of at most 40
LightRun ==
    /\ IsRequest
    /\ pc \in {"loop", "returned", "done"}
    /\ run_idx \in 1 .. Len(inputs)
    /\ params = normalize_inputs(inputs[run_idx])
    /\ Finite(inputs[run_idx].body_weight)
    /\ inputs[run_idx].body_weight <= 40

\* C21: for every accepted input with body_weight <= 40 the target force is
\* 0, so in every step of the run the post-constraint pressure grid is all
\* zeros, the wear grid stays all zeros, and every comfort_index is 100,
\* whatever the other five inputs are.
C21_LightRunIsZero ==
    LightRun =>
        /\ target_force = 0
        /\ \A k \in 1 .. Len(pressure_history) : pressure_history[k] = Full(0)
        /\ \A k \in 1 .. Len(wear_history) : wear_history[k] = Full(0)
        /\ wear_grid = Full(0)
        /\ \A k \in 1 .. Len(comfort_history) : comfort_history[k].comfort_index = 100

====
